---------------------------- MODULE Spec2Model ----------------------------
(***************************************************************************)
(* A model of pcwalton/arbtree (src/src/lib.rs): a persistent red-black    *)
(* tree whose nodes live behind Arc.  The heap of Arc allocations is a     *)
(* sequence of immutable Node records; a Link is 0 (Link::Empty) or the    *)
(* index of a node in the heap (Link::Node(Arc<Node>)).  Arc::new appends  *)
(* to the heap, cloning a Link copies the index.                           *)
(***************************************************************************)
EXTENDS Integers, Sequences, FiniteSets, TLC

VARIABLES heap, trees, hist, last, call, test, bal

vars == <<heap, trees, hist, last, call, test, bal>>

---------------------------------------------------------------------------
(* Bounds of the model.                                                    *)

\* keys the caller inserts and probes are 1..MaxKey
MaxKey == 3
\* Tree values the caller holds at once, Tree::new() included
MaxTrees == 4
\* keys of the quickcheck test's vector are 1..MaxTestKey
MaxTestKey == 7
\* keys of the trees handed to balance are 1..MaxBalKey
MaxBalKey == 5
\* keys of the trees handed to rotate are 1..MaxRotKey
MaxRotKey == 5

Keys == 1..MaxKey

---------------------------------------------------------------------------
(* Data model: Color, Node, Link.                                          *)

Red == "Red"
Black == "Black"
DoubleBlack == "DoubleBlack"
Color == {Red, Black, DoubleBlack}

Empty == 0

Node(key, value, left, right, color) ==
  [key |-> key, value |-> value, left |-> left, right |-> right, color |-> color]

\* Option<T>: None is the empty tuple, Some(x) the one-element tuple
None == <<>>
Some(x) == <<x>>

\* Arc::new(node): a fresh allocation; the existing allocations are untouched
Arc_new(h, node) == [h |-> Append(h, node), l |-> Len(h) + 1]

\* Link::clone (derived): Link::Node(arc) clones the Arc, i.e. the same node
Link_clone_Deep(h, link) ==
  IF link = Empty THEN [h |-> h, l |-> Empty]
  ELSE Arc_new(h, h[link])
Link_clone(h, link) == [h |-> h, l |-> link]

is_red(c) == c = Red
is_black(c) == c = Black
is_double_black(c) == c = DoubleBlack

\* Ord::cmp on keys
Cmp(a, b) == IF a < b THEN "Less" ELSE IF a > b THEN "Greater" ELSE "Equal"

to_option(link) == link

get_if_red(h, link) ==
  IF link # Empty /\ is_red(h[link].color) THEN link ELSE Empty

get_if_black(h, link) ==
  IF link # Empty /\ is_black(h[link].color) THEN link ELSE Empty

is_empty_or_double_black(h, link) ==
  IF link = Empty THEN TRUE ELSE is_double_black(h[link].color)

---------------------------------------------------------------------------
(* Link::rearrangement and Color::balance.                                 *)

rearrangement_Crossed(h, color, parent_key, parent_value, left_key, left_value, left_left, left_right, right_key, right_value, right_left, right_right) ==
  LET l == Arc_new(h, Node(left_key, left_value, left_left, right_left, Black))
      r == Arc_new(l.h, Node(right_key, right_value, left_right, right_right, Black))
  IN Arc_new(r.h, Node(parent_key, parent_value, l.l, r.l, color))

rearrangement(h, color, parent_key, parent_value, left_key, left_value, left_left, left_right, right_key, right_value, right_left, right_right) ==
  LET l == Arc_new(h, Node(left_key, left_value, left_left, left_right, Black))
      r == Arc_new(l.h, Node(right_key, right_value, right_left, right_right, Black))
  IN Arc_new(r.h, Node(parent_key, parent_value, l.l, r.l, color))

balance(h, self, key, value, left, right) ==
  LET l  == get_if_red(h, left)
      ll == IF l # Empty THEN get_if_red(h, h[l].left) ELSE Empty
      lr == IF l # Empty THEN get_if_red(h, h[l].right) ELSE Empty
      r  == get_if_red(h, right)
      rl == IF r # Empty THEN get_if_red(h, h[r].left) ELSE Empty
      rr == IF r # Empty THEN get_if_red(h, h[r].right) ELSE Empty
  IN
  IF is_black(self) /\ ll # Empty THEN
    rearrangement(h, Red, h[l].key, h[l].value,
                  h[ll].key, h[ll].value, h[ll].left, h[ll].right,
                  key, value, h[l].right, right)
  ELSE IF is_black(self) /\ lr # Empty THEN
    rearrangement(h, Red, h[lr].key, h[lr].value,
                  h[l].key, h[l].value, h[l].left, h[lr].left,
                  key, value, h[lr].right, right)
  ELSE IF is_black(self) /\ rl # Empty THEN
    rearrangement(h, Red, h[rl].key, h[rl].value,
                  key, value, left, h[rl].left,
                  h[r].key, h[r].value, h[rl].right, h[r].right)
  ELSE IF is_black(self) /\ rr # Empty THEN
    rearrangement(h, Red, h[r].key, h[r].value,
                  key, value, left, h[r].left,
                  h[rr].key, h[rr].value, h[rr].left, h[rr].right)
  ELSE IF is_double_black(self) /\ lr # Empty THEN
    rearrangement(h, Black, h[lr].key, h[lr].value,
                  h[l].key, h[l].value, h[l].left, h[lr].left,
                  key, value, h[lr].right, right)
  ELSE IF is_double_black(self) /\ rl # Empty THEN
    rearrangement(h, Black, h[rl].key, h[rl].value,
                  key, value, left, h[rl].left,
                  h[r].key, h[r].value, h[rl].right, h[r].right)
  ELSE Arc_new(h, Node(key, value, left, right, self))

---------------------------------------------------------------------------
(* Link::double_black_to_black and Color::rotate.  As written the source   *)
(* reads self.key, self.value, self.left, self.right inside the            *)
(* Link::Node(ref node) arm of double_black_to_black and calls Link::new   *)
(* in the last case of rotate; the model reads them as node.key, ...,      *)
(* node.right and Link::Node, as the arm's binding and the mirrored case   *)
(* (Link::Node, left-deficient) have it.                                   *)

\* the debug_assert of the Node arm holds at every call from rotate, which
\* calls it on links that are Empty or DoubleBlack only
double_black_to_black_Keep(h, link) == [h |-> h, l |-> link]
double_black_to_black(h, link) ==
  IF link = Empty THEN [h |-> h, l |-> Empty]
  ELSE LET node == h[link]
       IN Arc_new(h, Node(node.key, node.value, node.left, node.right, Black))

\* Link::Node(Arc::new(Node { color: Color::Red, key, value,
\*   left: left.double_black_to_black(), right: near })), left-deficient
red_left_deficient(h, key, value, left, near) ==
  LET d == double_black_to_black(h, left)
  IN Arc_new(d.h, Node(key, value, d.l, near, Red))

\* the same with left: near, right: right.double_black_to_black()
red_right_deficient(h, key, value, near, right) ==
  LET d == double_black_to_black(h, right)
  IN Arc_new(d.h, Node(key, value, near, d.l, Red))

rotate(h, self, key, value, left, right) ==
  IF is_red(self) /\ is_empty_or_double_black(h, left)
     /\ get_if_black(h, right) # Empty
  THEN LET n == red_left_deficient(h, key, value, left, h[right].left)
       IN balance(n.h, Black, h[right].key, h[right].value, n.l, h[right].right)
  ELSE IF is_red(self) /\ is_empty_or_double_black(h, right)
          /\ get_if_black(h, left) # Empty
  THEN LET n == red_right_deficient(h, key, value, h[left].right, right)
       IN balance(n.h, Black, h[left].key, h[left].value, h[left].left, n.l)
  ELSE IF is_black(self) /\ is_empty_or_double_black(h, left)
          /\ get_if_black(h, right) # Empty
  THEN LET n == red_left_deficient(h, key, value, left, h[right].left)
       IN balance(n.h, DoubleBlack, h[right].key, h[right].value, n.l, h[right].right)
  ELSE IF is_black(self) /\ is_empty_or_double_black(h, left)
          /\ get_if_red(h, right) # Empty
          /\ get_if_black(h, h[right].left) # Empty
  THEN LET right_left == h[h[right].left]
           n == red_left_deficient(h, key, value, left, right_left.left)
           b == balance(n.h, Black, right_left.key, right_left.value, n.l, right_left.right)
       IN Arc_new(b.h, Node(h[right].key, h[right].value, b.l, h[right].right, Black))
  ELSE IF is_black(self) /\ is_empty_or_double_black(h, right)
          /\ get_if_black(h, left) # Empty
  THEN LET n == red_right_deficient(h, key, value, h[left].right, right)
       IN balance(n.h, DoubleBlack, h[left].key, h[left].value, h[left].left, n.l)
  ELSE IF is_black(self) /\ is_empty_or_double_black(h, right)
          /\ get_if_red(h, left) # Empty
          /\ get_if_black(h, h[left].right) # Empty
  THEN LET left_right == h[h[left].right]
           n == red_right_deficient(h, key, value, left_right.right, right)
           b == balance(n.h, Black, left_right.key, left_right.value, left_right.left, n.l)
       IN Arc_new(b.h, Node(h[left].key, h[left].value, h[left].left, b.l, Black))
  ELSE Arc_new(h, Node(key, value, left, right, self))

---------------------------------------------------------------------------
(* Link::get_by, Tree::get, Link::insert.                                  *)

RECURSIVE Link_get_by(_, _, _)
Link_get_by_Swapped(h, link, probe) ==
  IF link = Empty THEN None
  ELSE LET node == h[link] IN
       CASE Cmp(probe, node.key) = "Less"    -> Link_get_by(h, node.right, probe)
         [] Cmp(probe, node.key) = "Greater" -> Link_get_by(h, node.left, probe)
         [] Cmp(probe, node.key) = "Equal"   -> Some(<<node.key, node.value>>)

\* the comparison closure of Tree::get is key.cmp(node_key), with key = probe
Link_get_by(h, link, probe) ==
  IF link = Empty THEN None
  ELSE LET node == h[link] IN
       CASE Cmp(probe, node.key) = "Less"    -> Link_get_by(h, node.left, probe)
         [] Cmp(probe, node.key) = "Greater" -> Link_get_by(h, node.right, probe)
         [] Cmp(probe, node.key) = "Equal"   -> Some(<<node.key, node.value>>)

\* .map(|(_, v)| v)
Tree_get(h, root, key) ==
  LET r == Link_get_by(h, root, key)
  IN IF r = None THEN None ELSE Some(r[1][2])

\* Link::insert on Link::Empty: a new Red leaf
insert_Empty_DoubleBlack(h, key, value) ==
  Arc_new(h, Node(key, value, Empty, Empty, DoubleBlack))
insert_Empty(h, key, value) ==
  Arc_new(h, Node(key, value, Empty, Empty, Red))

\* Link::insert, Ordering::Equal: a new node with the children and the
\* colour of the node it replaces
insert_Equal_InPlace(h, link, key, value) ==
  [h |-> [h EXCEPT ![link].value = value], l |-> link]
insert_Equal_Blacken(h, link, key, value) ==
  LET node == h[link]
      l == Link_clone(h, node.left)
      r == Link_clone(l.h, node.right)
  IN Arc_new(r.h, Node(key, value, l.l, r.l, Black))
insert_Equal(h, link, key, value) ==
  LET node == h[link]
      l == Link_clone(h, node.left)
      r == Link_clone(l.h, node.right)
  IN Arc_new(r.h, Node(key, value, l.l, r.l, node.color))

RECURSIVE Link_insert(_, _, _, _)
Link_insert(h, link, key, value) ==
  IF link = Empty THEN insert_Empty(h, key, value)
  ELSE LET node == h[link] IN
       CASE Cmp(key, node.key) = "Less" ->
              LET l == Link_insert(h, node.left, key, value)
                  r == Link_clone(l.h, node.right)
              IN balance(r.h, node.color, node.key, node.value, l.l, r.l)
         [] Cmp(key, node.key) = "Greater" ->
              LET l == Link_clone(h, node.left)
                  r == Link_insert(l.h, node.right, key, value)
              IN balance(r.h, node.color, node.key, node.value, l.l, r.l)
         [] Cmp(key, node.key) = "Equal" ->
              insert_Equal(h, link, key, value)

---------------------------------------------------------------------------
(* Iter::next.                                                             *)

\* the while loop of Iter::next, entered with current = self.start.take()
RECURSIVE next_loop(_, _, _)
next_loop(h, current, stack) ==
  IF ~(stack # <<>> \/ current # Empty)
  THEN [item |-> None, start |-> Empty, stack |-> stack]
  ELSE IF current # Empty
  THEN next_loop(h, to_option(h[current].left), Append(stack, current))
  ELSE LET node == h[stack[Len(stack)]]
       IN [item  |-> Some(<<node.key, node.value>>),
           start |-> to_option(node.right),
           stack |-> SubSeq(stack, 1, Len(stack) - 1)]

Iter_next_NoRight(h, start, stack) ==
  [next_loop(h, start, stack) EXCEPT !.start = Empty]
Iter_next(h, start, stack) == next_loop(h, start, stack)

\* tree.iter() driven to the end: the pairs yielded before None
RECURSIVE collect(_, _, _, _)
collect(h, start, stack, out) ==
  LET r == Iter_next(h, start, stack)
  IN IF r.item = None THEN out
     ELSE collect(h, r.start, r.stack, Append(out, r.item[1]))

Tree_iter_collect(h, root) == collect(h, to_option(root), <<>>, <<>>)

---------------------------------------------------------------------------
(* The caller of the public interface (impl Tree): it holds the Tree       *)
(* values trees[1..], trees[1] being Tree::new(), derives new ones by      *)
(* insert from any of them, and reads any of them with get and iter.       *)
(* hist[t] is the sequence of (key, value) pairs inserted to obtain        *)
(* trees[t]; last describes the most recent insert; call is the read in    *)
(* progress.                                                               *)

NoLast == [op |-> "none", base |-> 0, key |-> 0, value |-> 0, mark |-> 0, result |-> 0]
Idle == [op |-> "idle", tree |-> 0, key |-> 0, res |-> None,
         start |-> Empty, stack |-> <<>>, out |-> <<>>]
NoTest == [phase |-> "off", keys |-> {}, reference |-> <<>>, results |-> <<>>]
NoBal == [phase |-> "off", self |-> Red, key |-> 0, value |-> 0,
          left |-> Empty, right |-> Empty, mark |-> 0, result |-> Empty]

\* Tree::new()
Tree_new == Empty

Init ==
  /\ heap = <<>>
  /\ trees = <<Tree_new>>
  /\ hist = << <<>> >>
  /\ last = NoLast
  /\ call = Idle
  /\ test = NoTest
  /\ bal = NoBal

\* t' = trees[t].insert(key, value); every insert carries a fresh value (the
\* ordinal of the insert), so that a binding names the insert that wrote it
Tree_insert(t, key) ==
  /\ Len(trees) < MaxTrees
  /\ LET value == Len(trees)
         r == Link_insert(heap, trees[t], key, value)
     IN /\ heap' = r.h
        /\ trees' = Append(trees, r.l)
        /\ hist' = Append(hist, Append(hist[t], <<key, value>>))
        /\ last' = [op |-> "insert", base |-> t, key |-> key, value |-> value,
                    mark |-> Len(heap), result |-> Len(trees) + 1]
  /\ UNCHANGED <<call, test, bal>>

\* trees[t].get(&key)
Tree_get_call(t, key) ==
  /\ call' = [Idle EXCEPT !.op = "get", !.tree = t, !.key = key,
                          !.res = Tree_get(heap, trees[t], key)]
  /\ UNCHANGED <<heap, trees, hist, last, test, bal>>

\* trees[t].iter(): Iter { start: self.root.to_option(), stack: vec![] }
Tree_iter(t) ==
  /\ call' = [Idle EXCEPT !.op = "iter", !.tree = t,
                          !.start = to_option(trees[t])]
  /\ UNCHANGED <<heap, trees, hist, last, test, bal>>

\* one call of next() on the iterator in progress; None ends the iteration
Iter_next_call ==
  /\ call.op = "iter"
  /\ LET r == Iter_next(heap, call.start, call.stack)
     IN call' = [call EXCEPT !.op = IF r.item = None THEN "end" ELSE "iter",
                             !.start = r.start,
                             !.stack = r.stack,
                             !.out = IF r.item = None THEN call.out
                                     ELSE Append(call.out, r.item[1])]
  /\ UNCHANGED <<heap, trees, hist, last, test, bal>>

Next ==
  \/ \E t \in 1..Len(trees), key \in Keys : Tree_insert(t, key)
  \/ \E t \in 1..Len(trees), key \in Keys : Tree_get_call(t, key)
  \/ \E t \in 1..Len(trees) : Tree_iter(t)
  \/ Iter_next_call

Spec == Init /\ [][Next]_vars

---------------------------------------------------------------------------
(* The quickcheck property insert_then_iterate (src/src/tests.rs): a       *)
(* sorted, deduplicated vector of keys is shuffled, inserted key by key    *)
(* with value = key into one tree variable, and the tree is iterated.      *)

RECURSIVE SortedSeq(_)
SortedSeq(S) ==
  IF S = {} THEN <<>>
  ELSE LET m == CHOOSE x \in S : \A y \in S : x <= y
       IN <<m>> \o SortedSeq(S \ {m})

TestInit ==
  /\ heap = <<>>
  /\ trees = <<Tree_new>>
  /\ hist = << <<>> >>
  /\ last = NoLast
  /\ call = Idle
  /\ bal = NoBal
  /\ \E keys \in SUBSET (1..MaxTestKey) :
       test = [phase |-> "insert", keys |-> keys,
               reference |-> SortedSeq(keys), results |-> <<>>]

\* for key in keys { tree = tree.insert(key, key) }, keys in shuffled order
Test_insert(key) ==
  /\ test.phase = "insert"
  /\ key \in test.keys
  /\ LET r == Link_insert(heap, trees[1], key, key)
     IN /\ heap' = r.h
        /\ trees' = <<r.l>>
        /\ hist' = <<Append(hist[1], <<key, key>>)>>
        /\ last' = [op |-> "insert", base |-> 1, key |-> key, value |-> key,
                    mark |-> Len(heap), result |-> 1]
  /\ test' = [test EXCEPT !.keys = test.keys \ {key}]
  /\ UNCHANGED <<call, bal>>

\* let results = tree.iter().map(|(k, _)| *k).collect()
Test_collect ==
  /\ test.phase = "insert"
  /\ test.keys = {}
  /\ LET pairs == Tree_iter_collect(heap, trees[1])
     IN test' = [test EXCEPT !.phase = "done",
                             !.results = [i \in 1..Len(pairs) |-> pairs[i][1]]]
  /\ UNCHANGED <<heap, trees, hist, last, call, bal>>

TestNext ==
  \/ \E key \in 1..MaxTestKey : Test_insert(key)
  \/ Test_collect

TestSpec == TestInit /\ [][TestNext]_vars

---------------------------------------------------------------------------
(* Color::balance as a function: its arguments are drawn from the search   *)
(* trees over 1..MaxBalKey with nodes of any colour, and it is applied     *)
(* once.  A tree value is <<>> or <<key, color, left, right>>.             *)

RECURSIVE BSTs(_, _)
BSTs(lo, hi) ==
  {<<>>} \cup
  UNION { { <<k, c, l, r>> : c \in Color, l \in BSTs(lo, k - 1), r \in BSTs(k + 1, hi) }
          : k \in lo..hi }

\* the value stored under key k in an argument tree
ValueOf(k) == -k

\* the tree value t allocated in the heap, children first
RECURSIVE Load(_, _)
Load(h, t) ==
  IF t = <<>> THEN [h |-> h, l |-> Empty]
  ELSE LET l == Load(h, t[3])
           r == Load(l.h, t[4])
       IN Arc_new(r.h, Node(t[1], ValueOf(t[1]), l.l, r.l, t[2]))

BalInit ==
  /\ trees = <<Tree_new>>
  /\ hist = << <<>> >>
  /\ last = NoLast
  /\ call = Idle
  /\ test = NoTest
  /\ \E self \in Color, key \in 1..MaxBalKey :
       \E lt \in BSTs(1, key - 1), rt \in BSTs(key + 1, MaxBalKey) :
         LET l == Load(<<>>, lt)
             r == Load(l.h, rt)
         IN /\ heap = r.h
            /\ bal = [phase |-> "input", self |-> self, key |-> key,
                      value |-> ValueOf(key), left |-> l.l, right |-> r.l,
                      mark |-> Len(r.h), result |-> Empty]

\* self.balance(key, value, left, right)
Bal_apply ==
  /\ bal.phase = "input"
  /\ LET r == balance(heap, bal.self, bal.key, bal.value, bal.left, bal.right)
     IN /\ heap' = r.h
        /\ bal' = [bal EXCEPT !.phase = "done", !.result = r.l]
  /\ UNCHANGED <<trees, hist, last, call, test>>

BalNext == Bal_apply

BalSpec == BalInit /\ [][BalNext]_vars

---------------------------------------------------------------------------
(* Color::rotate as a function: its arguments are drawn from the search    *)
(* trees over 1..MaxRotKey with nodes of any colour, and it is applied     *)
(* once.  bal holds the arguments and the result, as for balance.          *)

RotInit ==
  /\ trees = <<Tree_new>>
  /\ hist = << <<>> >>
  /\ last = NoLast
  /\ call = Idle
  /\ test = NoTest
  /\ \E self \in Color, key \in 1..MaxRotKey :
       \E lt \in BSTs(1, key - 1), rt \in BSTs(key + 1, MaxRotKey) :
         LET l == Load(<<>>, lt)
             r == Load(l.h, rt)
         IN /\ heap = r.h
            /\ bal = [phase |-> "rotate", self |-> self, key |-> key,
                      value |-> ValueOf(key), left |-> l.l, right |-> r.l,
                      mark |-> Len(r.h), result |-> Empty]

\* self.rotate(key, value, left, right)
Rot_apply ==
  /\ bal.phase = "rotate"
  /\ LET r == rotate(heap, bal.self, bal.key, bal.value, bal.left, bal.right)
     IN /\ heap' = r.h
        /\ bal' = [bal EXCEPT !.phase = "rotated", !.result = r.l]
  /\ UNCHANGED <<trees, hist, last, call, test>>

RotNext == Rot_apply

RotSpec == RotInit /\ [][RotNext]_vars

---------------------------------------------------------------------------
(* Vocabulary of the properties.                                           *)

\* the nodes of the tree under a link
RECURSIVE Reach(_, _)
Reach(h, link) ==
  IF link = Empty THEN {}
  ELSE {link} \cup Reach(h, h[link].left) \cup Reach(h, h[link].right)

\* the tree under a link as a value <<key, value, color, left, right>>
RECURSIVE TreeOf(_, _)
TreeOf(h, link) ==
  IF link = Empty THEN <<>>
  ELSE <<h[link].key, h[link].value, h[link].color,
         TreeOf(h, h[link].left), TreeOf(h, h[link].right)>>

\* the same without the values: keys, colours and left/right structure
RECURSIVE ShapeOf(_, _)
ShapeOf(h, link) ==
  IF link = Empty THEN <<>>
  ELSE <<h[link].key, h[link].color,
         ShapeOf(h, h[link].left), ShapeOf(h, h[link].right)>>

\* the (key, value) pairs of a tree from left to right
RECURSIVE InOrder(_, _)
InOrder(h, link) ==
  IF link = Empty THEN <<>>
  ELSE InOrder(h, h[link].left) \o << <<h[link].key, h[link].value>> >>
       \o InOrder(h, h[link].right)

\* the nodes visited by a search for key, and the depth at which it stops
RECURSIVE Path(_, _, _)
Path(h, link, key) ==
  IF link = Empty THEN {}
  ELSE {link} \cup
       (CASE key < h[link].key -> Path(h, h[link].left, key)
          [] key > h[link].key -> Path(h, h[link].right, key)
          [] key = h[link].key -> {})

\* the subtrees hanging off the search path for key
OffPath(h, link, key) ==
  LET P == Path(h, link, key)
  IN { c \in UNION { {h[n].left, h[n].right} : n \in P } : c # Empty /\ c \notin P }

\* what a history of inserts binds: its keys, and the last value of each
KeysOfHist(s) == { s[i][1] : i \in 1..Len(s) }
LastValue(s, k) ==
  LET i == CHOOSE i \in 1..Len(s) :
             s[i][1] = k /\ \A j \in (i + 1)..Len(s) : s[j][1] # k
  IN s[i][2]
Expected(s) ==
  LET ks == SortedSeq(KeysOfHist(s))
  IN [i \in 1..Len(ks) |-> <<ks[i], LastValue(s, ks[i])>>]

IsPrefix(a, b) == Len(a) <= Len(b) /\ SubSeq(b, 1, Len(a)) = a

IsRedNode(h, link) == link # Empty /\ h[link].color = Red

RECURSIVE NoRedRed(_, _)
NoRedRed(h, link) ==
  link = Empty \/
    /\ ~(IsRedNode(h, link) /\ (IsRedNode(h, h[link].left) \/ IsRedNode(h, h[link].right)))
    /\ NoRedRed(h, h[link].left)
    /\ NoRedRed(h, h[link].right)

\* what a node of each colour adds to the black count of a path
Weight(c) == IF c = Black THEN 1 ELSE IF c = DoubleBlack THEN 2 ELSE 0

\* the black count of the path to each Empty link, from left to right,
\* under a link reached with black count acc
RECURSIVE Profile(_, _, _)
Profile(h, link, acc) ==
  IF link = Empty THEN <<acc>>
  ELSE Profile(h, h[link].left, acc + Weight(h[link].color))
       \o Profile(h, h[link].right, acc + Weight(h[link].color))

UniformBlackHeight(h, link) ==
  LET p == Profile(h, link, 0) IN \A i \in 1..Len(p) : p[i] = p[1]

\* the number of nodes on the longest path from a link to an Empty link
RECURSIVE Height(_, _)
Height(h, link) ==
  IF link = Empty THEN 0
  ELSE LET a == Height(h, h[link].left)
           b == Height(h, h[link].right)
       IN 1 + (IF a > b THEN a ELSE b)

\* ceil(log2(n)) for n >= 1
RECURSIVE CeilLog2(_)
CeilLog2(n) == IF n <= 1 THEN 0 ELSE 1 + CeilLog2((n + 1) \div 2)

TreeIds == 1..Len(trees)

---------------------------------------------------------------------------
(* Properties.                                                             *)

\* C1: iterating a tree built by inserts yields one pair per distinct
\* inserted key, in strictly ascending key order, each with the last value
\* inserted under that key, and then ends: every tree held iterates to the
\* sorted bindings of its insert history (so the order of the inserts of the
\* same keys does not matter), the iterator in progress has yielded a prefix
\* of them, and when next returns None it has yielded all of them.
C1_IterSortedLastValueWins ==
  /\ \A t \in TreeIds : Tree_iter_collect(heap, trees[t]) = Expected(hist[t])
  /\ call.op = "iter" => IsPrefix(call.out, Expected(hist[call.tree]))
  /\ call.op = "end" => call.out = Expected(hist[call.tree])

\* an iteration has ended on a tree built by inserting a larger key, a
\* smaller one, and the first again
C1_Witness ==
  /\ call.op = "end"
  /\ Len(call.out) = 2
  /\ Len(hist[call.tree]) = 3
  /\ hist[call.tree][1][1] > hist[call.tree][2][1]
  /\ hist[call.tree][3][1] = hist[call.tree][1][1]

\* C2: get(k) on any tree built by inserts returns the value most recently
\* inserted under k, and None when k was never inserted.
C2_GetLastInserted ==
  /\ \A t \in TreeIds : \A k \in Keys :
       Tree_get(heap, trees[t], k) =
         IF k \in KeysOfHist(hist[t]) THEN Some(LastValue(hist[t], k)) ELSE None
  /\ call.op = "get" =>
       call.res = IF call.key \in KeysOfHist(hist[call.tree])
                  THEN Some(LastValue(hist[call.tree], call.key)) ELSE None

\* a get has found a key that was inserted twice, in a tree of two keys
C2_Witness ==
  /\ call.op = "get"
  /\ call.res # None
  /\ Len(hist[call.tree]) = 3
  /\ Cardinality(KeysOfHist(hist[call.tree])) = 2
  /\ call.res[1] = 3

\* C3: persistence: no step changes a tree the caller already holds (its
\* root, its nodes, what get returns for every key and what iter yields),
\* and of two trees derived independently from the same base by inserting
\* different keys, neither holds the other's key unless the base did.
C3_StepKeepsTrees ==
  \A t \in TreeIds :
    /\ t <= Len(trees')
    /\ trees'[t] = trees[t]
    /\ TreeOf(heap', trees'[t]) = TreeOf(heap, trees[t])
    /\ \A k \in Keys : Tree_get(heap', trees'[t], k) = Tree_get(heap, trees[t], k)
    /\ Tree_iter_collect(heap', trees'[t]) = Tree_iter_collect(heap, trees[t])

C3_Independent ==
  \A a \in TreeIds : \A b \in TreeIds :
    ( /\ Len(hist[a]) >= 1
      /\ Len(hist[a]) = Len(hist[b])
      /\ SubSeq(hist[a], 1, Len(hist[a]) - 1) = SubSeq(hist[b], 1, Len(hist[b]) - 1) )
    => LET kb == hist[b][Len(hist[b])][1]
           base == SubSeq(hist[a], 1, Len(hist[a]) - 1)
       IN (kb # hist[a][Len(hist[a])][1] /\ kb \notin KeysOfHist(base))
            => Tree_get(heap, trees[a], kb) = None

\* C3: persistence, as a property of every step (C3_StepKeepsTrees) and of
\* every state (C3_Independent).
C3_Persistence ==
  /\ [][(heap' = heap /\ trees' = trees) \/ C3_StepKeepsTrees]_vars
  /\ []C3_Independent

\* two trees were derived from Tree::new() with different keys, and then a
\* third from the first of them by inserting its key again
C3_Witness ==
  /\ Len(trees) = 4
  /\ Len(hist[2]) = 1 /\ Len(hist[3]) = 1
  /\ hist[2][1][1] # hist[3][1][1]
  /\ last.op = "insert" /\ last.base = 2 /\ last.result = 4
  /\ last.key = hist[2][1][1]

\* C4: in every tree returned by insert no Red node has a Red child, and
\* every path from the root to an Empty link has the same number of Black
\* nodes.
C4_RedBlackInvariants ==
  \A t \in TreeIds :
    NoRedRed(heap, trees[t]) /\ UniformBlackHeight(heap, trees[t])

\* C5: the height of a tree of n distinct keys is at most 2*ceil(log2(n+1)).
C5_HeightBound ==
  \A t \in TreeIds :
    Height(heap, trees[t])
      <= 2 * CeilLog2(Cardinality(Reach(heap, trees[t])) + 1)

\* C6: no tree returned by a public operation holds a DoubleBlack node, and
\* the public operations allocate none.
C6_NoDoubleBlack ==
  /\ \A t \in TreeIds : \A n \in Reach(heap, trees[t]) : heap[n].color # DoubleBlack
  /\ \A n \in 1..Len(heap) : heap[n].color # DoubleBlack

\* a tree of three keys has been returned
C6_Witness ==
  \E t \in TreeIds : Cardinality(Reach(heap, trees[t])) = 3

\* the Tree values the public interface (impl Tree: new, get, get_by,
\* insert, iter) can return for a call on the tree under root: those of
\* insert, the one operation that takes a tree and returns a Tree
PublicResults(h, root) ==
  { Link_insert(h, root, k, v) : k \in Keys, v \in 1..MaxTrees }

WithoutKey(pairs, k) == SelectSeq(pairs, LAMBDA p : p[1] # k)

\* C7: delete(tree, key) is a public operation: for every tree and key the
\* interface returns a tree holding the bindings of the input without the
\* one of key (the same bindings when the key is absent).
C7_DeleteRemovesKey ==
  \A t \in TreeIds : \A k \in Keys :
    \E r \in PublicResults(heap, trees[t]) :
      InOrder(r.h, r.l) = WithoutKey(InOrder(heap, trees[t]), k)

\* C8: inserting a key the tree already holds replaces only its value: the
\* result has the keys, the colours and the left/right structure of the
\* input, the bindings of the other keys, the new value under the key, and
\* one new node per node of the search path (no rearrangement on the way up).
C8_ReplaceKeepsShape ==
  (last.op = "insert" /\ Tree_get(heap, trees[last.base], last.key) # None) =>
    /\ ShapeOf(heap, trees[last.result]) = ShapeOf(heap, trees[last.base])
    /\ WithoutKey(InOrder(heap, trees[last.result]), last.key)
         = WithoutKey(InOrder(heap, trees[last.base]), last.key)
    /\ Tree_get(heap, trees[last.result], last.key) = Some(last.value)
    /\ Len(heap) - last.mark
         = Cardinality(Path(heap, trees[last.base], last.key))

\* the replaced key was below the root of a tree of three keys
C8_Witness ==
  /\ last.op = "insert"
  /\ Tree_get(heap, trees[last.base], last.key) # None
  /\ heap[trees[last.base]].key # last.key
  /\ Cardinality(Path(heap, trees[last.base], last.key)) = 2

\* C9: structural sharing: the nodes of insert's result that the insert
\* allocated all lie on the search path for the key, and every subtree of
\* the input hanging off that path is in the result as the same node.
C9_StructuralSharing ==
  last.op = "insert" =>
    LET old == trees[last.base]
        new == trees[last.result]
    IN /\ \A n \in Reach(heap, new) :
            n > last.mark => n \in Path(heap, new, last.key)
       /\ \A c \in OffPath(heap, old, last.key) :
            c <= last.mark /\ c \in Reach(heap, new)
       /\ \A n \in Reach(heap, new) :
            n <= last.mark => n \in Reach(heap, old)

\* the insert went past a node with a subtree on its other side
C9_Witness ==
  /\ last.op = "insert"
  /\ OffPath(heap, trees[last.base], last.key) # {}
  /\ Cardinality(Path(heap, trees[last.result], last.key)) = 2

\* the danger shapes of balance's arguments, and the middle key of each
ShapeLL == IsRedNode(heap, bal.left) /\ IsRedNode(heap, heap[bal.left].left)
ShapeLR == IsRedNode(heap, bal.left) /\ IsRedNode(heap, heap[bal.left].right)
ShapeRL == IsRedNode(heap, bal.right) /\ IsRedNode(heap, heap[bal.right].left)
ShapeRR == IsRedNode(heap, bal.right) /\ IsRedNode(heap, heap[bal.right].right)

Matched ==
  \/ bal.self = Black /\ (ShapeLL \/ ShapeLR \/ ShapeRL \/ ShapeRR)
  \/ bal.self = DoubleBlack /\ (ShapeLR \/ ShapeRL)

MiddleKeys ==
  (IF bal.self = Black /\ ShapeLL THEN {heap[bal.left].key} ELSE {})
  \cup (IF ShapeLR THEN {heap[heap[bal.left].right].key} ELSE {})
  \cup (IF ShapeRL THEN {heap[heap[bal.right].left].key} ELSE {})
  \cup (IF bal.self = Black /\ ShapeRR THEN {heap[bal.right].key} ELSE {})

\* C10: balance with Black or DoubleBlack on a search tree with a matched
\* danger shape returns a node under the middle key, Red (Black for
\* DoubleBlack), with two Black children, holding the pairs of left, then
\* (key, value), then those of right, with the black count of every path
\* to an Empty link as in the unrearranged node; otherwise it returns the
\* node of the given colour, key, value and children.
C10_Balance ==
  bal.phase = "done" =>
    LET res == heap[bal.result] IN
    IF Matched
    THEN /\ res.key \in MiddleKeys
         /\ res.color = (IF bal.self = Black THEN Red ELSE Black)
         /\ res.left # Empty /\ heap[res.left].color = Black
         /\ res.right # Empty /\ heap[res.right].color = Black
         /\ InOrder(heap, bal.result)
              = InOrder(heap, bal.left) \o << <<bal.key, bal.value>> >>
                \o InOrder(heap, bal.right)
         /\ Profile(heap, bal.result, 0)
              = Profile(heap, bal.left, Weight(bal.self))
                \o Profile(heap, bal.right, Weight(bal.self))
    ELSE res = Node(bal.key, bal.value, bal.left, bal.right, bal.self)

\* a rearrangement has moved two non-empty inner subtrees
C10_Witness ==
  /\ bal.phase = "done"
  /\ Matched
  /\ heap[heap[bal.result].left].right # Empty
  /\ heap[heap[bal.result].right].left # Empty

\* a red-black tree proper: no Red node with a Red child, the same black
\* count on every path, no DoubleBlack node
ValidRB(h, link) ==
  /\ NoRedRed(h, link)
  /\ UniformBlackHeight(h, link)
  /\ \A n \in Reach(h, link) : h[n].color # DoubleBlack

BlackHeight(h, link) == Profile(h, link, 0)[1]

\* the black-height of a deficient subtree: that of the tree it is once its
\* DoubleBlack root is Black
DemotedHeight(h, d) ==
  IF d = Empty THEN 0 ELSE 1 + BlackHeight(h, h[d].left)

\* d is a deficient child beside the sibling sib: Empty, or a DoubleBlack
\* node over two red-black trees of equal black-height, one black level
\* short of sib, which is a red-black tree
IsDeficient(h, d, sib) ==
  /\ \/ d = Empty
     \/ /\ h[d].color = DoubleBlack
        /\ ValidRB(h, h[d].left)
        /\ ValidRB(h, h[d].right)
        /\ BlackHeight(h, h[d].left) = BlackHeight(h, h[d].right)
  /\ ValidRB(h, sib)
  /\ BlackHeight(h, sib) = DemotedHeight(h, d) + 1

RotLeftDeficient == IsDeficient(heap, bal.left, bal.right)
RotRightDeficient == IsDeficient(heap, bal.right, bal.left)
RotDeficient == IF RotLeftDeficient THEN bal.left ELSE bal.right
RotSibling == IF RotLeftDeficient THEN bal.right ELSE bal.left
\* the child of the sibling on the side of the deficient child
RotNear ==
  IF RotLeftDeficient THEN heap[RotSibling].left ELSE heap[RotSibling].right

\* rotate has been applied to a Red or Black node with a deficient child,
\* Red only over a Black sibling
RotPre ==
  /\ bal.phase = "rotated"
  /\ bal.self \in {Red, Black}
  /\ RotLeftDeficient \/ RotRightDeficient
  /\ bal.self = Red => ~IsRedNode(heap, RotSibling)

\* what the result of rotate keeps and restores
RotRestores ==
  /\ InOrder(heap, bal.result)
       = InOrder(heap, bal.left) \o << <<bal.key, bal.value>> >>
         \o InOrder(heap, bal.right)
  /\ RotDeficient # Empty =>
       \E n \in Reach(heap, bal.result) :
         heap[n] = [heap[RotDeficient] EXCEPT !.color = Black]
  /\ \A n \in Reach(heap, bal.result) \ {bal.result} : heap[n].color # DoubleBlack
  /\ NoRedRed(heap, bal.result)
  /\ LET p == Profile(heap, bal.result, 0)
     IN \A i \in 1..Len(p) :
          p[i] = Weight(bal.self) + BlackHeight(heap, RotSibling)

\* a tree value <<key, color, left, right>> with left and right exchanged
\* and the order of the keys reversed
RECURSIVE MirrorT(_)
MirrorT(t) ==
  IF t = <<>> THEN <<>>
  ELSE <<MaxRotKey + 1 - t[1], t[2], MirrorT(t[4]), MirrorT(t[3])>>

\* rotate on the mirror image of its arguments gives the mirror image of
\* its result
RotMirror ==
  LET l == Load(<<>>, MirrorT(ShapeOf(heap, bal.right)))
      r == Load(l.h, MirrorT(ShapeOf(heap, bal.left)))
      k == MaxRotKey + 1 - bal.key
      m == rotate(r.h, bal.self, k, ValueOf(k), l.l, r.l)
  IN ShapeOf(m.h, m.l) = MirrorT(ShapeOf(heap, bal.result))

RotAbsorbedCases ==
  (bal.self = Red \/ IsRedNode(heap, RotSibling))
    => heap[bal.result].color # DoubleBlack

\* C11 as stated: rotate on a node with a deficient child keeps the pairs
\* in order, demotes the deficient child to Black, leaves no Red node with
\* a Red child and the black count of the node before the deficiency on
\* every path; a Red node over a Black sibling and a Black node over a Red
\* sibling give a root that is not DoubleBlack, a Black node over a Black
\* sibling gives a DoubleBlack root; and left and right are mirrors.
C11_RotateAsStated ==
  RotPre =>
    /\ RotRestores
    /\ RotAbsorbedCases
    /\ (bal.self = Black /\ ~IsRedNode(heap, RotSibling))
         => heap[bal.result].color = DoubleBlack
    /\ RotMirror

\* C11, amended: as stated, except that a Black node over a Black sibling
\* gives a DoubleBlack root exactly when the sibling's child on the side of
\* the deficient child is not Red; when it is Red the root is Black.
C11_Rotate ==
  RotPre =>
    /\ RotRestores
    /\ RotAbsorbedCases
    /\ (bal.self = Black /\ ~IsRedNode(heap, RotSibling))
         => heap[bal.result].color =
              (IF IsRedNode(heap, RotNear) THEN Black ELSE DoubleBlack)
    /\ RotMirror

\* rotate has been applied to a Black node with a deficient child beside a
\* Black sibling whose near child is Red
C11_Witness ==
  /\ RotPre
  /\ bal.self = Black
  /\ ~IsRedNode(heap, RotSibling)
  /\ IsRedNode(heap, RotNear)

===========================================================================
